---- MODULE Spec2Model ----
(***************************************************************************)
(* The chat widget of the landing page (ChatWidget.jsx): its React state,   *)
(* the event handlers toggleChat, onChange, handleKeyPress and              *)
(* handleSendMessage, and the continuations of handleSendMessage after its  *)
(* two awaits (fetch, response.json()).                                     *)
(*                                                                         *)
(* A text is a sequence of characters.  A literal whose characters play no  *)
(* part in any decision of the code (the greeting, the fallback, a server   *)
(* answer) is written as a sequence holding the literal as one element.     *)
(***************************************************************************)
EXTENDS Naturals, Sequences, FiniteSets

VARIABLES
  isOpen,        \* useState(false): the panel is shown
  messages,      \* useState([greeting]): the list of turns
  inputValue,    \* useState(""): the draft
  isLoading,     \* useState(false): the "Thinking..." flag
  calls,         \* one record per invocation of handleSendMessage that passed
                 \* its guard, in submission order: its position and locals
  probesIssued,  \* number of fetch(".../health") calls made so far
  probesPending, \* number of those whose promise has not settled
  lastEvent      \* history: "submit" when the last event called
                 \* handleSendMessage, "other" for any other event

vars == <<isOpen, messages, inputValue, isLoading, calls, probesIssued,
          probesPending, lastEvent>>

\* ---------------------------------------------------------------- bounds

\* Number of submissions a run may accept.
MaxSubmits == 2

\* ---------------------------------------------------------------- texts

Whitespace == {" "}

GreetingText == <<"Hello! Ask me anything about SMIK.">>

FallbackText == <<"I'm waking up! Please try again in 10s.">>

\* The JavaScript value undefined, where a text is expected.
Undefined == <<"undefined">>

\* Values the input element may hand to onChange.
Drafts == { <<>>, <<" ">>, <<" ", "a", " ">> }

\* Values of the answer field a server response may carry.
Answers == { <<"Unmesh Mehta is the CEO.">> }

\* HTTP status classes of a response (response.ok or not).
Statuses == {"ok", "error"}

\* Response bodies: a JSON object with an answer field, a JSON object without
\* one (an error detail), and a body that yields no object: no JSON at all, so
\* that response.json() rejects.
BodyKinds == {"answer", "noAnswer", "invalid"}

\* Keys a keypress event may carry.
Keys == {"Enter", "a"}

\* String.prototype.trim: leading, then trailing whitespace removed.
RECURSIVE TrimStart(_)
TrimStart(s) ==
  IF s # <<>> /\ Head(s) \in Whitespace THEN TrimStart(Tail(s)) ELSE s

RECURSIVE TrimEnd(_)
TrimEnd(s) ==
  IF s # <<>> /\ s[Len(s)] \in Whitespace
    THEN TrimEnd(SubSeq(s, 1, Len(s) - 1))
    ELSE s

Trim(s) == TrimEnd(TrimStart(s))

\* !inputValue.trim(): the empty string is the only falsy string.
IsBlankNoTrim(s) == s = <<>>

IsBlank(s) == Trim(s) = <<>>

\* { text: inputValue, sender: "user" }
UserMessage(draft) == [text |-> draft, sender |-> "user"]

BotMessage(text) == [text |-> text, sender |-> "bot"]

\* (prev) => [...prev, turn]
AppendTurnReset(prev, turn) == <<turn>>

AppendTurnFront(prev, turn) == <<turn>> \o prev

AppendTurn(prev, turn) == prev \o <<turn>>

\* data.answer of a parsed body that is an object.
DataAnswer(body, answer) == IF body = "answer" THEN answer ELSE Undefined

\* ---------------------------------------------------------------- state

Init ==
  /\ isOpen = FALSE
  /\ messages = <<BotMessage(GreetingText)>>
  /\ inputValue = <<>>
  /\ isLoading = FALSE
  /\ calls = <<>>
  /\ probesIssued = 0
  /\ probesPending = 0
  /\ lastEvent = "other"

Unresolved == { i \in 1..Len(calls) : calls[i].pc # "done" }

Resolved == { i \in 1..Len(calls) : calls[i].pc = "done" }

\* ---------------------------------------------------------------- handlers

\* const toggleChat = () => setIsOpen(!isOpen), from the floating button or
\* the close button of the header.
toggleChatAbort ==
  /\ isOpen' = ~isOpen
  /\ isLoading' = FALSE
  /\ lastEvent' = "other"
  /\ UNCHANGED <<messages, inputValue, calls, probesIssued, probesPending>>

toggleChat ==
  /\ isOpen' = ~isOpen
  /\ lastEvent' = "other"
  /\ UNCHANGED <<messages, inputValue, isLoading, calls, probesIssued,
                 probesPending>>

\* onChange={(e) => setInputValue(e.target.value)}; the input exists only
\* while the panel is open.
onChange(value) ==
  /\ isOpen
  /\ inputValue' = value
  /\ lastEvent' = "other"
  /\ UNCHANGED <<isOpen, messages, isLoading, calls, probesIssued,
                 probesPending>>

\* handleSendMessage up to its first await: the guard, the user turn, the
\* draft cleared, the flag set and the request sent.
handleSendMessage ==
  /\ lastEvent' = "submit"
  /\ IF IsBlank(inputValue)
       THEN UNCHANGED <<isOpen, messages, inputValue, isLoading, calls,
                        probesIssued, probesPending>>
       ELSE /\ Len(calls) < MaxSubmits
            /\ messages' = AppendTurn(messages, UserMessage(inputValue))
            /\ inputValue' = <<>>
            /\ isLoading' = TRUE
            /\ calls' = Append(calls,
                 [ draft    |-> inputValue,
                   question |-> UserMessage(inputValue).text,
                   userIdx  |-> Len(messages) + 1,
                   pc       |-> "fetch",
                   status   |-> "none",
                   body     |-> "none",
                   answer   |-> Undefined,
                   botIdx   |-> 0,
                   probes   |-> 0 ])
            /\ UNCHANGED <<isOpen, probesIssued, probesPending>>

\* <button onClick={handleSendMessage}>Send</button>, inside the open panel.
ClickSend ==
  /\ isOpen
  /\ handleSendMessage

\* handleKeyPress: Enter submits, any other key does nothing here.
handleKeyPress(key) ==
  /\ isOpen
  /\ IF key = "Enter"
       THEN handleSendMessage
       ELSE /\ lastEvent' = "other"
            /\ UNCHANGED <<isOpen, messages, inputValue, isLoading, calls,
                           probesIssued, probesPending>>

\* ---------------------------------------------------------------- continuations

\* The try block completes: the bot turn with data.answer, then finally.
TryCompletesStale(i, body, answer) ==
  /\ messages' = AppendTurn(SubSeq(messages, 1, calls[i].userIdx - 1),
                            BotMessage(DataAnswer(body, answer)))
  /\ isLoading' = FALSE
  /\ calls' = [calls EXCEPT ![i].pc = "done", ![i].body = body,
                            ![i].answer = answer,
                            ![i].botIdx = calls[i].userIdx]
  /\ UNCHANGED <<isOpen, inputValue, probesIssued, probesPending>>

TryCompletes(i, body, answer) ==
  /\ messages' = AppendTurn(messages, BotMessage(DataAnswer(body, answer)))
  /\ isLoading' = FALSE
  /\ calls' = [calls EXCEPT ![i].pc = "done", ![i].body = body,
                            ![i].answer = answer,
                            ![i].botIdx = Len(messages) + 1]
  /\ UNCHANGED <<isOpen, inputValue, probesIssued, probesPending>>

\* The catch block: the fallback turn and the health probe, then finally.
CatchBlockNoFinally(i, body) ==
  /\ messages' = AppendTurn(messages, BotMessage(FallbackText))
  /\ probesIssued' = probesIssued + 1
  /\ probesPending' = probesPending + 1
  /\ calls' = [calls EXCEPT ![i].pc = "done", ![i].body = body,
                            ![i].botIdx = Len(messages) + 1,
                            ![i].probes = @ + 1]
  /\ UNCHANGED <<isOpen, inputValue, isLoading>>

CatchBlock(i, body) ==
  /\ messages' = AppendTurn(messages, BotMessage(FallbackText))
  /\ probesIssued' = probesIssued + 1
  /\ probesPending' = probesPending + 1
  /\ isLoading' = FALSE
  /\ calls' = [calls EXCEPT ![i].pc = "done", ![i].body = body,
                            ![i].botIdx = Len(messages) + 1,
                            ![i].probes = @ + 1]
  /\ UNCHANGED <<isOpen, inputValue>>

\* await fetch(...) fulfils with a response of some status.
FetchFulfilled(i, status) ==
  /\ i \in 1..Len(calls)
  /\ calls[i].pc = "fetch"
  /\ calls' = [calls EXCEPT ![i].pc = "json", ![i].status = status]
  /\ lastEvent' = "other"
  /\ UNCHANGED <<isOpen, messages, inputValue, isLoading, probesIssued,
                 probesPending>>

\* await fetch(...) rejects: the network failed.
FetchRejected(i) ==
  /\ i \in 1..Len(calls)
  /\ calls[i].pc = "fetch"
  /\ lastEvent' = "other"
  /\ CatchBlock(i, "none")

\* await response.json() fulfils with the parsed body, an object.
JsonFulfilled(i, body, answer) ==
  /\ i \in 1..Len(calls)
  /\ calls[i].pc = "json"
  /\ body \in {"answer", "noAnswer"}
  /\ (body = "answer") = (answer # Undefined)
  /\ lastEvent' = "other"
  /\ TryCompletes(i, body, answer)

\* await response.json() rejects: the body is no JSON.  (A body that parses to
\* null ends the same way: data.answer throws inside the try block.)
JsonRejected(i) ==
  /\ i \in 1..Len(calls)
  /\ calls[i].pc = "json"
  /\ lastEvent' = "other"
  /\ CatchBlock(i, "invalid")

\* The promise of fetch(".../health") settles; nothing is attached to it.
ProbeSettled(fulfilled) ==
  /\ probesPending > 0
  /\ probesPending' = probesPending - 1
  /\ lastEvent' = "other"
  /\ UNCHANGED <<isOpen, messages, inputValue, isLoading, calls, probesIssued>>

\* ---------------------------------------------------------------- specification

Toggle == toggleChat

Change == \E value \in Drafts : onChange(value)

KeyPress == \E key \in Keys : handleKeyPress(key)

FetchFulfils == \E i \in 1..MaxSubmits, status \in Statuses : FetchFulfilled(i, status)

FetchRejects == \E i \in 1..MaxSubmits : FetchRejected(i)

JsonFulfils ==
  \E i \in 1..MaxSubmits, body \in BodyKinds, answer \in Answers \cup {Undefined} :
    JsonFulfilled(i, body, answer)

JsonRejects == \E i \in 1..MaxSubmits : JsonRejected(i)

ProbeSettles == \E fulfilled \in BOOLEAN : ProbeSettled(fulfilled)

Next ==
  \/ Toggle
  \/ Change
  \/ ClickSend
  \/ KeyPress
  \/ FetchFulfils
  \/ FetchRejects
  \/ JsonFulfils
  \/ JsonRejects
  \/ ProbeSettles

Spec == Init /\ [][Next]_vars

\* Every pending promise settles: the network answers or times out.
Settle(i) ==
  \/ \E status \in Statuses : FetchFulfilled(i, status)
  \/ FetchRejected(i)
  \/ \E body \in BodyKinds, answer \in Answers \cup {Undefined} :
       JsonFulfilled(i, body, answer)
  \/ JsonRejected(i)

FairSpec ==
  /\ Init
  /\ [][Next]_vars
  /\ \A i \in 1..MaxSubmits : WF_vars(Settle(i))

\* ---------------------------------------------------------------- properties

IsPrefix(s, t) == Len(s) <= Len(t) /\ SubSeq(t, 1, Len(s)) = s

AllWhitespace(s) == \A k \in 1..Len(s) : s[k] \in Whitespace

UserTurns == { k \in 1..Len(messages) : messages[k].sender = "user" }

BotTurns == { k \in 1..Len(messages) : messages[k].sender = "bot" }

\* The request of a resolved call failed: the fetch rejected, the response had
\* a non-success status, or its body was no JSON or carried no answer field.
Failed(i) ==
  /\ calls[i].pc = "done"
  /\ \/ calls[i].status \in {"none", "error"}
     \/ calls[i].body \in {"invalid", "noAnswer"}

\* The turn at index k of the list, if there is one.
TurnAt(k) == IF k \in 1..Len(messages) THEN messages[k] ELSE [text |-> <<>>, sender |-> "none"]

\* C1: single-flight. While a request is unresolved no second request is
\* dispatched and no second user turn is appended: at most one call is
\* unresolved, and the user turns exceed the resolved calls by at most one.
C1_SingleFlight ==
  /\ Cardinality(Unresolved) <= 1
  /\ Cardinality(UserTurns) <= Cardinality(Resolved) + 1

\* C2: every kind of failed request (fetch rejected, non-success status,
\* malformed body, body without an answer field) ends in the fixed fallback bot
\* turn, never in a turn built from the failed response.
C2_FailuresCollapse ==
  \A i \in Resolved :
    Failed(i) => TurnAt(calls[i].botIdx) = BotMessage(FallbackText)

\* C3: each failed request appends exactly one fallback bot turn and issues
\* exactly one health probe; a request that succeeds issues none.
C3_FallbackAndProbeOnce ==
  /\ \A i \in Resolved :
       IF Failed(i)
         THEN /\ TurnAt(calls[i].botIdx) = BotMessage(FallbackText)
              /\ calls[i].probes = 1
         ELSE calls[i].probes = 0
  /\ probesIssued = Cardinality({ i \in Resolved : Failed(i) })

\* C3, on the paths that reach the catch block: a call that ended there has
\* its fallback turn and its one probe, any other call has no probe.
C3_CatchPath ==
  /\ \A i \in Resolved :
       IF calls[i].status = "none" \/ calls[i].body = "invalid"
         THEN /\ TurnAt(calls[i].botIdx) = BotMessage(FallbackText)
              /\ calls[i].probes = 1
         ELSE calls[i].probes = 0
  /\ probesPending <= probesIssued

\* C3, the probe's outcome: the step in which a probe settles changes neither
\* the list nor the flag.
C3_ProbeOutcomeDiscarded ==
  [][ probesPending' < probesPending
        => UNCHANGED <<isOpen, messages, inputValue, isLoading, calls>> ]_vars

\* C4: the user turn and the question sent both equal the trimmed draft; no
\* user turn has leading or trailing whitespace; no empty question is sent.
C4_TrimmedQuestion ==
  /\ \A i \in 1..Len(calls) :
       /\ calls[i].question = Trim(calls[i].draft)
       /\ TurnAt(calls[i].userIdx) = [text |-> Trim(calls[i].draft), sender |-> "user"]
       /\ calls[i].question # <<>>
  /\ \A k \in UserTurns :
       LET t == messages[k].text
       IN  t # <<>> /\ t[1] \notin Whitespace /\ t[Len(t)] \notin Whitespace

\* C5: the loading flag is true exactly when a request is outstanding.
C5_LoadingIffOutstanding == isLoading <=> (Unresolved # {})

\* C6: the list keeps its greeting as first element and every step leaves the
\* list unchanged or extends it at the end.
C6_AppendOnlyGreeting ==
  [][ /\ TurnAt(1) = BotMessage(GreetingText)
      /\ messages'[1] = BotMessage(GreetingText)
      /\ IsPrefix(messages, messages') ]_vars

C6_Witness ==
  /\ messages[1] = BotMessage(GreetingText)
  /\ \E i \in Resolved : ~Failed(i)
  /\ \E j \in Resolved : calls[j].status = "none"
  /\ ~isOpen

\* C7: every resolved request has produced exactly one bot turn, the answer
\* of its response or the fallback; the bot turns after the greeting are as
\* many as the resolved requests; and, requests resolving eventually, every
\* accepted submission is resolved and the loading flag is false again.
C7_OneBotTurnEach ==
  /\ Cardinality(BotTurns) = 1 + Cardinality(Resolved)
  /\ \A i \in Unresolved : calls[i].botIdx = 0
  /\ \A i \in Resolved :
       /\ TurnAt(calls[i].botIdx).sender = "bot"
       /\ TurnAt(calls[i].botIdx).text \in
            {FallbackText, DataAnswer(calls[i].body, calls[i].answer)}
       /\ calls[i].botIdx > 1
       /\ \A j \in Resolved : j # i => calls[j].botIdx # calls[i].botIdx

C8_BlankSubmitNoOp ==
  [][ (lastEvent' = "submit" /\ AllWhitespace(inputValue))
        => UNCHANGED <<isOpen, messages, isLoading, inputValue, calls,
                       probesIssued, probesPending>> ]_vars

C8_Witness ==
  /\ lastEvent = "submit"
  /\ inputValue = <<" ">>
  /\ Len(calls) = 1
  /\ Len(messages) = 2

\* C9: a toggle changes the open flag alone; a request in flight can settle
\* whatever the flag is, and the turn it appends is decided by its response.
C9_ToggleIndependence ==
  /\ [][ isOpen' # isOpen
           => UNCHANGED <<messages, inputValue, isLoading, calls,
                          probesIssued, probesPending>> ]_vars
  /\ [][ \A i \in Unresolved :
           calls'[i].pc = "done"
             => /\ Len(messages') = Len(messages) + 1
                /\ SubSeq(messages', 1, Len(messages)) = messages
                /\ messages'[Len(messages')] =
                     IF calls'[i].body \in {"answer", "noAnswer"}
                       THEN BotMessage(DataAnswer(calls'[i].body, calls'[i].answer))
                       ELSE BotMessage(FallbackText)
                /\ isLoading' = FALSE ]_vars
  /\ [](\A i \in Unresolved : ENABLED Settle(i))

C9_Witness ==
  /\ ~isOpen
  /\ \E i \in Unresolved : calls[i].pc = "json"
  /\ \E j \in Resolved : calls[j].botIdx = Len(messages)

\* C10: the user turn of a submission is in the list from the step that
\* dispatches its request, at a smaller index than its answer or fallback.
C10_UserTurnPrecedesAnswer ==
  \A i \in 1..Len(calls) :
    /\ TurnAt(calls[i].userIdx) = [text |-> calls[i].question, sender |-> "user"]
    /\ calls[i].pc = "done" =>
         /\ calls[i].userIdx < calls[i].botIdx
         /\ TurnAt(calls[i].botIdx).sender = "bot"

C10_Witness ==
  \E i \in Resolved : calls[i].botIdx > calls[i].userIdx + 1

\* C11: bot turns are appended in the order in which the requests resolve,
\* not the order of submission: the step that resolves a call puts its bot turn
\* right after the list as it is at that moment, behind the bot turn of every
\* call resolved before, and no turn of any call is lost or overwritten.
C11_NoTurnLost ==
  /\ Len(messages) = 1 + Len(calls) + Cardinality(Resolved)
  /\ \A i \in 1..Len(calls) :
       /\ TurnAt(calls[i].userIdx) = UserMessage(calls[i].question)
       /\ i \in Resolved => TurnAt(calls[i].botIdx).sender = "bot"

C11_ResolutionOrder ==
  /\ []C11_NoTurnLost
  /\ [][ \A i \in Unresolved :
           calls'[i].pc = "done"
             => /\ messages' = messages \o <<messages'[Len(messages')]>>
                /\ calls'[i].botIdx = Len(messages) + 1
                /\ \A j \in Resolved : calls'[j].botIdx < calls'[i].botIdx
                /\ \A j \in 1..Len(calls) \ {i} : calls'[j] = calls[j] ]_vars

C11_Witness ==
  \E i, j \in Resolved :
    /\ i < j
    /\ calls[j].botIdx < calls[i].botIdx
    /\ calls[j].userIdx < calls[i].botIdx
    /\ calls[i].userIdx < calls[j].userIdx

====
